---- MODULE Spec2Model ----
(***************************************************************************)
(* Model of the classifieds front-end: the listing repository              *)
(* (listingService), the chat repository (chatService) and the edit page   *)
(* (EditListingPage), over the remote document store they call.            *)
(*                                                                         *)
(* A stored document is a function from field names to values; an absent   *)
(* field is a name outside its DOMAIN.  All values are strings.            *)
(***************************************************************************)
EXTENDS Naturals, Sequences, FiniteSets, TLC

VARIABLES
    listings,       \* the "listings" collection: document id -> document
    created,        \* number of documents addDoc has added to "listings"
    calls,          \* updateListing calls between their updateDoc and getDoc
    editPage,       \* state of the EditListingPage component
    lastOp,         \* the step just taken: operation, input, prior document, outcome
    messages,       \* the "messages" collection, in insertion order
    clock,          \* the server time of the latest write to "messages"
    markCalls,      \* markMessagesAsRead calls between getDocs and batch.commit
    chatCalls,      \* getChatsForUser calls between their two getDocs
    chatsPage,      \* state of the MessagesPage component and its open subscriptions
    dashboard       \* state of the AdminDashboardPage component, its listeners and fetches

vars == <<listings, created, calls, editPage, lastOp, messages, clock, markCalls, chatCalls,
          chatsPage, dashboard>>

listingVars == <<listings, created, calls, editPage, dashboard>>
chatVars    == <<messages, clock, markCalls, chatCalls, chatsPage>>

----------------------------------------------------------------------------
(* Bounds *)

MaxListings     == 2    \* listings created in Spec (the repository alone)
MaxEditListings == 1    \* listings created in SpecEdit (repository and edit page)
MaxCalls        == 1    \* repository calls in flight at a time
MaxMessages     == 3    \* messages sent in SpecChat
MaxClock        == 2    \* values of the server clock
MaxConvMessages == 2    \* messages sent in SpecConv
MaxWriters      == 2    \* updateListing calls in flight at a time in SpecRace
MaxPageListings == 1    \* listings created in SpecPage
MaxPageMessages == 2    \* messages sent in SpecPage
MaxEffects      == 2    \* runs of the MessagesPage effect
MaxPreviewListings == 2 \* listings created in SpecPreview
MaxPreviewMessages == 2 \* messages sent in SpecPreview
MaxLoadListings == 1    \* listings created in SpecLoad
MaxLoadMessages == 2    \* messages sent in SpecLoad
MaxDashListings == 1    \* listings created in SpecDash
MaxFetches      == 2    \* fetchDashboardData calls in flight at a time

(* Values *)

PENDING  == "pending"
ACTIVE   == "active"
REJECTED == "rejected"
AdStatus == {PENDING, ACTIVE, REJECTED}

Undef == "undefined"            \* the JavaScript value undefined
Users == {"u1", "u2"}
Titles == {"t1", "t2"}
Reasons == {"r1", "r2"}

ListingIdNames == <<"L1", "L2", "L3", "L4">>
ListingIds(max) == {ListingIdNames[i] : i \in 1..max}

Timestamp == "Timestamp"        \* a resolved server Timestamp object
Millis    == "millis"           \* an epoch-millisecond number

NoDoc == [k \in {} |-> ""]      \* no document / an undefined result

----------------------------------------------------------------------------
(* JavaScript object helpers *)

\* { ...a, ...b }
Spread(a, b) == [k \in DOMAIN a \cup DOMAIN b |-> IF k \in DOMAIN b THEN b[k] ELSE a[k]]

\* const { <keys>, ...rest } = obj
Rest(obj, keys) == [k \in DOMAIN obj \ keys |-> obj[k]]

\* !obj.field
Falsy(obj, field) == field \notin DOMAIN obj \/ obj[field] \in {"", Undef}

HasUndefined(data) == \E k \in DOMAIN data : data[k] = Undef

----------------------------------------------------------------------------
(* The remote document store (firebase_firestore_module), as the build      *)
(* configures it: getFirestore(app) with default settings, under which a    *)
(* field value of undefined makes addDoc/updateDoc/batch.update throw, and  *)
(* updateDoc of a missing document fails with not-found.                    *)

ServerTimestampSentinel == "serverTimestamp()"

\* what the server stores for written data: the sentinel becomes a Timestamp
Resolve(data) ==
    [k \in DOMAIN data |-> IF data[k] = ServerTimestampSentinel THEN Timestamp ELSE data[k]]

addDocOutcome(data) == IF HasUndefined(data) THEN "invalid-argument" ELSE "ok"

updateDocOutcome(store, id, data) ==
    IF HasUndefined(data) THEN "invalid-argument"
    ELSE IF id \notin DOMAIN store THEN "not-found"
    ELSE "ok"

MutUpdateDocKeep(store, id, data) == [store EXCEPT ![id] = Spread(Resolve(data), @)]

MutUpdateDocAll(store, id, data) == [k \in DOMAIN store |-> Spread(store[k], Resolve(data))]

MutUpdateDoc(store, id, data) == [store EXCEPT ![id] = Resolve(data)]

\* updateDoc merges the written fields into the stored document
updateDoc(store, id, data) == [store EXCEPT ![id] = Spread(@, Resolve(data))]

addDoc(store, id, data) == [k \in DOMAIN store \cup {id} |-> IF k = id THEN Resolve(data) ELSE store[k]]

MutDeleteDoc(store, id) == store

deleteDoc(store, id) == [k \in DOMAIN store \ {id} |-> store[k]]

Field(doc, f) == IF f \in DOMAIN doc THEN doc[f] ELSE Undef

----------------------------------------------------------------------------
(* listingService *)

fromFirestore(id, data) ==
    Spread(data, [id |-> id,
                  createdAt |-> IF Field(data, "createdAt") = Timestamp
                                THEN Millis ELSE Field(data, "createdAt")])

\* getListingById: the converted document, or undefined
getListingById(store, id) == IF id \in DOMAIN store THEN fromFirestore(id, store[id]) ELSE NoDoc

\* the records a list query returns (getDocs and map(fromFirestore)), without their order
listed(store, ids) == {fromFirestore(id, store[id]) : id \in ids}

\* getAllListings, lines 37-41
getAllListings(store) == listed(store, DOMAIN store)

\* getActiveListings (lines 43-51) and getPendingListings (lines 116-124)
getListingsByStatus(store, status) ==
    listed(store, {id \in DOMAIN store : Field(store[id], "status") = status})

\* getListingsByUserId, lines 62-70
getListingsByUserId(store, userId) ==
    listed(store, {id \in DOMAIN store : Field(store[id], "userId") = userId})

MutCreateRequiresUser(productData) == Field(productData, "userId") = Undef

\* createListing, line 73: the owner id is required
createRequiresUser(productData) == Falsy(productData, "userId")

MutCreateDataToSave(productData) ==
    Spread([status |-> PENDING, createdAt |-> ServerTimestampSentinel], productData)

\* createListing, lines 76-80
createDataToSave(productData) ==
    Spread(productData, [status |-> PENDING, createdAt |-> ServerTimestampSentinel])

\* createListing, lines 89-94: the optimistic record returned
createReturned(productData, id) ==
    Spread(productData, [id |-> id, status |-> PENDING, createdAt |-> Millis])

MutSafeUpdates(updates) == updates

\* updateListing, line 100
safeUpdates(updates) == Rest(updates, {"userId"})

\* approveListing, line 127
approveUpdates == [status |-> ACTIVE, rejectionReason |-> Undef]

MutRejectUpdates(reason) == [status |-> REJECTED, rejectionReason |-> "r1"]

\* rejectListing, line 131
rejectUpdates(reason) == [status |-> REJECTED, rejectionReason |-> reason]

----------------------------------------------------------------------------
(* EditListingPage *)

MutFinalStatus(isAdminEdit, formStatus) == formStatus

MutFinalStatusPending(isAdminEdit, formStatus) == PENDING

\* handleSubmit, lines 70-76
finalStatus(isAdminEdit, formStatus) == IF ~isAdminEdit THEN PENDING ELSE formStatus

\* handleSubmit, lines 78-81
updatedProductData(isAdminEdit, productData) ==
    Spread(productData, [status |-> finalStatus(isAdminEdit, productData["status"])])

MutCanEdit(product, currentUserId, isAdminEdit) == product # NoDoc

\* fetchProduct, lines 45-46: the listing was found, and the page is in admin mode or
\* the listing's owner is the current user
canEdit(product, currentUserId, isAdminEdit) ==
    /\ product # NoDoc
    /\ (isAdminEdit \/ Field(product, "userId") = currentUserId)

\* what ProductForm hands to onSubmit: a Product built from the form's inputs
Optional(f, S) == {NoDoc} \cup {[k \in {f} |-> v] : v \in S}

FormData ==
    { Spread([title |-> t, status |-> st], x) :
        t \in Titles, st \in AdStatus,
        x \in Optional("userId", Users) \cup Optional("createdAt", {Millis})
              \cup Optional("rejectionReason", Reasons) }

ClosedPage == [phase |-> "closed", productId |-> "", currentUserId |-> "", isAdminEdit |-> FALSE]

----------------------------------------------------------------------------
(* chatService: queries over the "messages" collection.  A query result is   *)
(* the sequence of the matching documents' positions in the collection.      *)

AdIds == {"L1", "L2"}
Texts == {"hi"}
Participants == {"u1", "u2", "u3"}

RECURSIVE Upto(_)
Upto(n) == IF n = 0 THEN << >> ELSE Append(Upto(n - 1), n)

Range(seq) == {seq[i] : i \in DOMAIN seq}

\* collection(db, 'messages')
AllDocs(msgs) == Upto(Len(msgs))

\* where(field, '==', value) applied to a result
Where(msgs, ids, field, value) ==
    LET Test(i) == msgs[i][field] = value IN SelectSeq(ids, Test)

\* orderBy(field, 'asc') applied to a result; documents with equal values keep
\* their document order
InsertAsc(msgs, sorted, i, field) ==
    LET Less(j)    == msgs[j][field] < msgs[i][field]
        NotLess(j) == ~(msgs[j][field] < msgs[i][field])
    IN  SelectSeq(sorted, Less) \o <<i>> \o SelectSeq(sorted, NotLess)

RECURSIVE OrderByAsc(_, _, _)
OrderByAsc(msgs, ids, field) ==
    IF ids = << >> THEN << >>
    ELSE InsertAsc(msgs, OrderByAsc(msgs, Tail(ids), field), Head(ids), field)

\* messageFromFirestore, lines 21-28: the stored fields, the document id, and the
\* stored Timestamp as its count of milliseconds (a stored time is kept here as
\* that count)
messageFromFirestore(id, data) ==
    [id |-> id, adId |-> data.adId, senderId |-> data.senderId,
     receiverId |-> data.receiverId, text |-> data.text,
     timestamp |-> data.timestamp, read |-> data.read]

MutIsParticipant(msg, currentUserId) == msg.senderId = currentUserId

\* getMessagesForAd, line 52: the local filter
isParticipant(msg, currentUserId) ==
    msg.senderId = currentUserId \/ msg.receiverId = currentUserId

\* getMessagesForAd, lines 33-53
getMessagesForAd(msgs, adId, currentUserId) ==
    IF currentUserId \in {"", Undef} THEN << >>
    ELSE LET ids      == OrderByAsc(msgs, Where(msgs, AllDocs(msgs), "adId", adId), "timestamp")
             fetched  == [k \in DOMAIN ids |-> messageFromFirestore(ids[k], msgs[ids[k]])]
             Keep(m)  == isParticipant(m, currentUserId)
         IN  SelectSeq(fetched, Keep)

\* ProductPage: the owner id of the product record the page has loaded
ProductOwner == [a \in AdIds |-> IF a = "L1" THEN "u1" ELSE "u2"]

\* ProductPage messages listener, lines 118-120: the messages shown
pageMessages(msgs, productId, currentUserId, ownerId) ==
    LET ids      == OrderByAsc(msgs, Where(msgs, AllDocs(msgs), "adId", productId), "timestamp")
        fetched  == [k \in DOMAIN ids |-> messageFromFirestore(ids[k], msgs[ids[k]])]
        Keep(m)  == \/ (m.senderId = currentUserId /\ m.receiverId = ownerId)
                    \/ (m.senderId = ownerId /\ m.receiverId = currentUserId)
    IN  SelectSeq(fetched, Keep)

\* ProductPage messages listener, line 123
hasUnreadFor(fetchedMessages, currentUserId) ==
    \E k \in DOMAIN fetchedMessages :
        fetchedMessages[k].receiverId = currentUserId /\ ~fetchedMessages[k].read

MutSendRequires(senderId, receiverId) == senderId \in {"", Undef}

\* sendMessage, line 56
sendRequires(senderId, receiverId) == senderId \in {"", Undef} \/ receiverId \in {"", Undef}

\* sendMessage, lines 59-66
sendDataToSave(adId, senderId, receiverId, text) ==
    [adId |-> adId, senderId |-> senderId, receiverId |-> receiverId, text |-> text,
     timestamp |-> ServerTimestampSentinel, read |-> FALSE]

\* the document addDoc stores: the server replaces the sentinel by its time
storedMessage(data, now) == [data EXCEPT !.timestamp = now]

\* sendMessage, lines 68-73: the optimistic record returned
sendReturned(data, id) ==
    [id |-> id, adId |-> data.adId, senderId |-> data.senderId, receiverId |-> data.receiverId,
     text |-> data.text, timestamp |-> Millis, read |-> FALSE]

MutMarkQuery(msgs, adId, readerId) ==
    Where(msgs, Where(msgs, AllDocs(msgs), "adId", adId), "read", FALSE)

\* markMessagesAsRead, lines 78-85
markQuery(msgs, adId, readerId) ==
    Where(msgs, Where(msgs, Where(msgs, AllDocs(msgs), "adId", adId),
                      "receiverId", readerId), "read", FALSE)

MutBatchCommit(msgs, ids) == [i \in DOMAIN msgs |-> [msgs[i] EXCEPT !.read = TRUE]]

\* markMessagesAsRead, lines 88-92: the batch of updates, committed atomically
batchCommit(msgs, ids) ==
    [i \in DOMAIN msgs |-> IF i \in Range(ids) THEN [msgs[i] EXCEPT !.read = TRUE] ELSE msgs[i]]

MutUnreadQuery(msgs, userId) == Where(msgs, AllDocs(msgs), "receiverId", userId)

\* getUnreadMessagesCountForUser, lines 97-102
unreadQuery(msgs, userId) ==
    Where(msgs, Where(msgs, AllDocs(msgs), "receiverId", userId), "read", FALSE)

\* getUnreadMessagesCountForUser, lines 95-104
getUnreadMessagesCountForUser(msgs, userId) ==
    IF userId \in {"", Undef} THEN 0 ELSE Len(unreadQuery(msgs, userId))

\* getChatsForUser, lines 112-113
sentMessagesQuery(msgs, userId) == Where(msgs, AllDocs(msgs), "senderId", userId)
receivedMessagesQuery(msgs, userId) == Where(msgs, AllDocs(msgs), "receiverId", userId)

\* snapshot.docs.map(doc => doc.data().adId)
AdIdsOf(msgs, ids) == [k \in DOMAIN ids |-> msgs[ids[k]].adId]

\* adIds.add(...) for each item (lines 120-122); a Set keeps insertion order
RECURSIVE AddAll(_, _)
AddAll(acc, items) ==
    IF items = << >> THEN acc
    ELSE AddAll(IF Head(items) \in Range(acc) THEN acc ELSE Append(acc, Head(items)),
                Tail(items))

MutChatAdIds(sentAdIds, receivedAdIds) == sentAdIds \o receivedAdIds

\* getChatsForUser, lines 120-124
chatAdIds(sentAdIds, receivedAdIds) == AddAll(AddAll(<< >>, sentAdIds), receivedAdIds)

----------------------------------------------------------------------------
(* MessagesPage *)

\* the page before it is mounted: no effect has run, no then-callback is at work,
\* no onSnapshot subscription is open
\* the page before it is mounted, with the initial state of lines 41-43
ClosedChatsPage ==
    [mounted |-> FALSE, currentUserId |-> "", effects |-> 0, loops |-> {}, subs |-> << >>,
     chatPreviews |-> << >>, isLoading |-> TRUE, error |-> FALSE]

\* a state update by a callback of the page: it takes effect while the component is
\* mounted; the state of an unmounted component is gone
setState(page, next) == IF page.mounted THEN next ELSE page

\* useEffect, lines 47-54: the state the effect sets before its first await
effectState(page, userId) ==
    IF userId = "" THEN [page EXCEPT !.isLoading = FALSE, !.chatPreviews = << >>]
    ELSE [page EXCEPT !.isLoading = TRUE, !.error = FALSE]

\* then-callback, lines 58-62: no listing id
thenEmpty(page) == [page EXCEPT !.chatPreviews = << >>, !.isLoading = FALSE]

\* then-callback, line 117, after the loop
thenDone(page) == [page EXCEPT !.isLoading = FALSE]

MutCatchHandler(page) == [page EXCEPT !.error = TRUE]

\* catch, lines 123-127
catchHandler(page) == [page EXCEPT !.error = TRUE, !.isLoading = FALSE]

Reverse(seq) == [k \in DOMAIN seq |-> seq[Len(seq) + 1 - k]]

\* the result of the listener's query, lines 72-77: orderBy('timestamp', 'desc')
previewQuery(msgs, adId) ==
    Reverse(OrderByAsc(msgs, Where(msgs, AllDocs(msgs), "adId", adId), "timestamp"))

\* fromFirestoreToMessage, lines 28-35
fromFirestoreToMessage(id, data) ==
    [id |-> id, adId |-> data.adId, senderId |-> data.senderId,
     receiverId |-> data.receiverId, text |-> data.text,
     timestamp |-> data.timestamp, read |-> data.read]

MutSortByTimestamp(ms) == ms

\* messagesForAd.sort((a,b) => a.timestamp - b.timestamp), line 84: a stable sort
RECURSIVE sortByTimestamp(_)
sortByTimestamp(ms) ==
    IF ms = << >> THEN << >>
    ELSE LET m         == ms[Len(ms)]
             sorted    == sortByTimestamp(SubSeq(ms, 1, Len(ms) - 1))
             NotAfter(e) == e.timestamp <= m.timestamp
             After(e)    == e.timestamp > m.timestamp
         IN  SelectSeq(sorted, NotAfter) \o <<m>> \o SelectSeq(sorted, After)

\* snapshot callback, lines 80-87: the messages of the snapshot the callback keeps
messagesForAd(msgs, adId, currentUserId) ==
    LET ids     == previewQuery(msgs, adId)
        docs    == [k \in DOMAIN ids |-> fromFirestoreToMessage(ids[k], msgs[ids[k]])]
        Keep(m) == m.senderId = currentUserId \/ m.receiverId = currentUserId
    IN  sortByTimestamp(SelectSeq(docs, Keep))

\* snapshot callback, lines 86-98: the preview pushed; a last message that is null
\* gives the timestamp null and the sender undefined (0 stands for the null
\* timestamp: both are falsy in the comparator)
NoMessagesText == "none"
previewOf(msgs, adId, adTitle, currentUserId) ==
    LET kept       == messagesForAd(msgs, adId, currentUserId)
        Unread(m)  == m.receiverId = currentUserId /\ ~m.read
        has        == kept # << >>
        last       == kept[Len(kept)]
    IN  [adId |-> adId, adTitle |-> adTitle,
         lastMessageText |-> IF has THEN last.text ELSE NoMessagesText,
         lastMessageTimestamp |-> IF has THEN last.timestamp ELSE 0,
         lastMessageSenderId |-> IF has THEN last.senderId ELSE Undef,
         unreadCount |-> Len(SelectSeq(kept, Unread))]

MutSortsBefore(a, b) ==
    IF a.lastMessageTimestamp # 0 /\ b.lastMessageTimestamp # 0
    THEN b.lastMessageTimestamp < a.lastMessageTimestamp
    ELSE a.lastMessageTimestamp # 0

\* the comparator of lines 101-108 returns a negative number: a sorts before b
sortsBefore(a, b) ==
    IF a.unreadCount > 0 /\ b.unreadCount = 0 THEN TRUE
    ELSE IF b.unreadCount > 0 /\ a.unreadCount = 0 THEN FALSE
    ELSE IF a.lastMessageTimestamp # 0 /\ b.lastMessageTimestamp # 0
         THEN b.lastMessageTimestamp < a.lastMessageTimestamp
    ELSE a.lastMessageTimestamp # 0

\* updatedPreviews.sort(comparator), line 101: a stable sort
RECURSIVE sortPreviews(_)
sortPreviews(ps) ==
    IF ps = << >> THEN << >>
    ELSE LET p         == ps[Len(ps)]
             sorted    == sortPreviews(SubSeq(ps, 1, Len(ps) - 1))
             Stays(e)  == ~sortsBefore(p, e)
             Moves(e)  == sortsBefore(p, e)
         IN  SelectSeq(sorted, Stays) \o <<p>> \o SelectSeq(sorted, Moves)

MutUpdatePreviews(prev, preview) == sortPreviews(Append(prev, preview))

\* the updater given to setChatPreviews, lines 89-109
updatePreviews(prev, preview) ==
    LET Others(p) == p.adId # preview.adId
    IN  sortPreviews(Append(SelectSeq(prev, Others), preview))

\* useEffect, lines 46-129: what the effect callback returns to React.  Its only
\* return is the bare one of line 50; the function of lines 120-122 is the value of
\* the then-callback, not of the effect
effectCleanup == "none"

\* React, on a change of the effect's dependency and on unmount, calls the cleanup the
\* effect returned, if it returned one; the cleanup of lines 120-122 would call every
\* unsubscribe
runCleanup(cleanup, subs) == IF cleanup = "none" THEN subs ELSE << >>

----------------------------------------------------------------------------
(* AdminDashboardPage (CreateListingPage.tsx lines 334-410) *)

\* getCountFromServer(query(listingsCol, where('status', '==', status)))
countByStatus(store, status) ==
    Cardinality({id \in DOMAIN store : Field(store[id], "status") = status})

\* fetchDashboardData, lines 345-348: the four counts it awaits one after the other;
\* the fourth is getCountFromServer(listingsCol)
serverCount(store, k) ==
    IF k = 1 THEN countByStatus(store, ACTIVE)
    ELSE IF k = 2 THEN countByStatus(store, PENDING)
    ELSE IF k = 3 THEN countByStatus(store, REJECTED)
    ELSE Cardinality(DOMAIN store)

\* fetchDashboardData, lines 350-355
statsOf(counts) ==
    [totalActive |-> counts[1], totalPending |-> counts[2],
     totalRejected |-> counts[3], totalListings |-> counts[4]]

\* the result of recentPendingQuery, lines 378-383
pendingDocs(store) ==
    [id \in {i \in DOMAIN store : Field(store[i], "status") = PENDING} |-> store[id]]

\* a listener before its first snapshot, and after a snapshot with the given documents
NoSnapshot == [got |-> FALSE, docs |-> NoDoc]
Snapshot(docs) == [got |-> TRUE, docs |-> docs]

\* useState, lines 336-338; no listener attached, no fetch in flight
ClosedDashboard ==
    [mounted |-> FALSE, stats |-> NoDoc, isLoading |-> TRUE, recentPending |-> {},
     fetches |-> {}, seenAll |-> NoSnapshot, seenPending |-> NoSnapshot]

\* a call of fetchDashboardData that has not awaited a count yet
startFetch(fetches) ==
    fetches \cup {[n |-> CHOOSE n \in 1..(Cardinality(fetches) + 1) :
                             \A f \in fetches : f.n # n,
                   counts |-> << >>]}

----------------------------------------------------------------------------
(* Inputs *)

CreateInputs ==
    { Spread(Spread([title |-> t], u), x) :
        t \in Titles,
        u \in Optional("userId", Users \cup {"", Undef}),
        x \in Optional("status", {ACTIVE}) \cup Optional("contactInfo", {Undef}) }

RejectReasons == Reasons \cup {"", Undef}

\* the record of a step: pre is the prior stored status of the document it addressed,
\* arg the input the step was given, ret the record it returned
Op(op, id, outcome, pre, arg, ret) ==
    [op |-> op, id |-> id, outcome |-> outcome, pre |-> pre, arg |-> arg, ret |-> ret]

StatusOf(store, id) == IF id \in DOMAIN store THEN Field(store[id], "status") ELSE "none"

----------------------------------------------------------------------------
Init ==
    /\ listings = NoDoc
    /\ created = 0
    /\ calls = {}
    /\ editPage = ClosedPage
    /\ lastOp = Op("init", "", "ok", "none", "", NoDoc)
    /\ messages = << >>
    /\ clock = 1
    /\ markCalls = {}
    /\ chatCalls = {}
    /\ chatsPage = ClosedChatsPage
    /\ dashboard = ClosedDashboard

----------------------------------------------------------------------------
(* listingService actions *)

\* createListing (part_000 lines 72-95)
CreateListing(productData, max) ==
    /\ created < max
    /\ LET id   == ListingIdNames[created + 1]
           data == createDataToSave(productData)
           out  == IF createRequiresUser(productData) THEN "required-field"
                   ELSE addDocOutcome(data)
       IN  /\ listings' = IF out = "ok" THEN addDoc(listings, id, data) ELSE listings
           /\ created' = IF out = "ok" THEN created + 1 ELSE created
           /\ lastOp' = Op("create", IF out = "ok" THEN id ELSE "", out, "none", Field(productData, "userId"),
                           IF out = "ok" THEN createReturned(productData, id) ELSE NoDoc)
    /\ UNCHANGED <<calls, editPage, dashboard, chatVars>>

\* updateListing up to its first await (part_000 lines 98-101): updateDoc
UpdateListingWriteUpTo(op, id, updates, arg, maxCalls) ==
    LET safe == safeUpdates(updates)
        out  == updateDocOutcome(listings, id, safe)
    IN  /\ Cardinality(calls) < maxCalls
        /\ listings' = IF out = "ok" THEN updateDoc(listings, id, safe) ELSE listings
        /\ calls' = IF out = "ok" THEN calls \cup {[op |-> op, id |-> id]} ELSE calls
        /\ lastOp' = Op(op, id, out, StatusOf(listings, id), arg, NoDoc)
        /\ UNCHANGED <<created, dashboard, chatVars>>

UpdateListingWrite(op, id, updates, arg) ==
    UpdateListingWriteUpTo(op, id, updates, arg, MaxCalls)

\* updateListing after updateDoc resolved (part_000 lines 106-107): getDoc and return
UpdateListingReturn(c) ==
    /\ c \in calls
    /\ calls' = calls \ {c}
    /\ lastOp' = Op("return", c.id, "ok", StatusOf(listings, c.id), c.op,
                    getListingById(listings, c.id))
    /\ editPage' = IF c.op \in {"ownerEdit", "adminEdit"} THEN ClosedPage ELSE editPage
    /\ UNCHANGED <<listings, created, dashboard, chatVars>>

\* approveListing (part_000 lines 126-128)
ApproveListing(id) ==
    /\ UpdateListingWrite("approve", id, approveUpdates, "")
    /\ UNCHANGED editPage

\* rejectListing (part_000 lines 130-132)
RejectListing(id, reason) ==
    /\ UpdateListingWrite("reject", id, rejectUpdates(reason), reason)
    /\ UNCHANGED editPage

\* deleteListing (part_000 lines 110-114)
DeleteListing(id) ==
    /\ listings' = deleteDoc(listings, id)
    /\ lastOp' = Op("delete", id, "ok", StatusOf(listings, id), "", TRUE)
    /\ UNCHANGED <<created, calls, editPage, dashboard, chatVars>>

----------------------------------------------------------------------------
(* EditListingPage actions *)

\* mount: the effect's synchronous checks (EditListingPage.tsx lines 29-39)
OpenEditPage(productId, currentUserId, isAdminEdit) ==
    /\ editPage.phase = "closed"
    /\ editPage' = [phase |-> IF productId = "" \/ (currentUserId = "" /\ ~isAdminEdit)
                              THEN "error" ELSE "loading",
                    productId |-> productId, currentUserId |-> currentUserId,
                    isAdminEdit |-> isAdminEdit]
    /\ lastOp' = Op("open", productId, "ok", "none", "", NoDoc)
    /\ UNCHANGED <<listings, created, calls, dashboard, chatVars>>

\* fetchProduct resolves (lines 41-60)
FetchProduct ==
    /\ editPage.phase = "loading"
    /\ LET product == getListingById(listings, editPage.productId)
           allowed == canEdit(product, editPage.currentUserId, editPage.isAdminEdit)
       IN  /\ editPage' = [editPage EXCEPT !.phase = IF allowed THEN "ready" ELSE "error"]
           /\ lastOp' = Op("fetch", editPage.productId, IF allowed THEN "ok" ELSE "error",
                           StatusOf(listings, editPage.productId), "", product)
    /\ UNCHANGED <<listings, created, calls, dashboard, chatVars>>

\* handleSubmit (lines 64-97), up to the await inside updateListing
HandleSubmitUpTo(productData, maxCalls) ==
    /\ editPage.phase = "ready"
    /\ LET op  == IF editPage.isAdminEdit THEN "adminEdit" ELSE "ownerEdit"
           upd == updatedProductData(editPage.isAdminEdit, productData)
       IN  /\ UpdateListingWriteUpTo(op, editPage.productId, upd, productData["status"], maxCalls)
           /\ editPage' = [editPage EXCEPT !.phase =
                              IF lastOp'.outcome = "ok" THEN "submitting" ELSE "error"]

HandleSubmit(productData) == HandleSubmitUpTo(productData, MaxCalls)

\* the page is left (unmount)
CloseEditPage ==
    /\ editPage.phase \in {"ready", "error"}
    /\ editPage' = ClosedPage
    /\ lastOp' = Op("close", editPage.productId, "ok", "none", "", NoDoc)
    /\ UNCHANGED <<listings, created, calls, dashboard, chatVars>>

----------------------------------------------------------------------------
(* chatService actions *)

\* sendMessage (part_001 lines 55-74); now is the server's time when it stores the
\* message: the time of the previous write, or later
SendMessageUpTo(adId, senderId, receiverId, text, now, max) ==
    /\ Len(messages) < max
    /\ LET data == sendDataToSave(adId, senderId, receiverId, text)
           bad  == sendRequires(senderId, receiverId)
       IN  /\ messages' = IF bad THEN messages ELSE Append(messages, storedMessage(data, now))
           /\ lastOp' = IF bad THEN Op("send", "", "required-field", 0, "", NoDoc)
                         ELSE Op("send", adId, "ok", 0, receiverId,
                                 sendReturned(data, Len(messages) + 1))
           /\ clock' = IF bad THEN clock ELSE now
    /\ UNCHANGED <<markCalls, chatCalls, chatsPage, listingVars>>

SendMessage(adId, senderId, receiverId, text, now) ==
    SendMessageUpTo(adId, senderId, receiverId, text, now, MaxMessages)

\* getMessagesForAd (part_001 lines 33-53)
GetMessagesForAd(adId, currentUserId) ==
    /\ lastOp' = Op("getMessages", adId, "ok", 0, currentUserId,
                    getMessagesForAd(messages, adId, currentUserId))
    /\ UNCHANGED <<chatVars, listingVars>>

\* markMessagesAsRead up to its await of getDocs (part_001 lines 76-86)
MarkQuery(adId, readerId) ==
    /\ Cardinality(markCalls) + Cardinality(chatCalls) < MaxCalls
    /\ LET ids  == markQuery(messages, adId, readerId)
           done == readerId = "" \/ ids = << >>
       IN  /\ markCalls' = IF done THEN markCalls
                           ELSE markCalls \cup {[adId |-> adId, readerId |-> readerId,
                                                 ids |-> ids, seen |-> Len(messages)]}
           /\ lastOp' = IF done THEN Op("markRead", adId, "ok", Len(messages), readerId, NoDoc)
                         ELSE Op("markQuery", "", "ok", 0, "", NoDoc)
    /\ UNCHANGED <<messages, clock, chatCalls, chatsPage, listingVars>>

\* markMessagesAsRead from the batch to its end (part_001 lines 88-92)
MarkCommit(c) ==
    /\ c \in markCalls
    /\ markCalls' = markCalls \ {c}
    /\ messages' = batchCommit(messages, c.ids)
    /\ lastOp' = Op("markRead", c.adId, "ok", c.seen, c.readerId, NoDoc)
    /\ UNCHANGED <<clock, chatCalls, chatsPage, listingVars>>

\* ProductPage: a snapshot of the listing's messages is delivered to the listener of a
\* page that shows listing productId to currentUserId with the chat open (part_005
\* lines 97-135); the effect opens no listener for the owner or without a user
ProductPageSnapshot(productId, currentUserId) ==
    LET ownerId == ProductOwner[productId]
        fetched == pageMessages(messages, productId, currentUserId, ownerId)
    IN  /\ currentUserId \notin {"", Undef}
        /\ ownerId # currentUserId
        /\ IF hasUnreadFor(fetched, currentUserId)
           THEN MarkQuery(productId, currentUserId)
           ELSE /\ lastOp' = Op("snapshot", productId, "ok", 0, currentUserId, NoDoc)
                /\ UNCHANGED <<chatVars, listingVars>>

\* getUnreadMessagesCountForUser (part_001 lines 95-104)
CountUnread(userId) ==
    /\ lastOp' = Op("countUnread", "", "ok", 0, userId,
                    getUnreadMessagesCountForUser(messages, userId))
    /\ UNCHANGED <<chatVars, listingVars>>

\* getChatsForUser until the first of its two getDocs is answered (lines 109-118);
\* Promise.all issues both, and the server answers them in either order
ChatsFirstQueryUpTo(userId, first, maxCalls) ==
    /\ Cardinality(markCalls) + Cardinality(chatCalls) < maxCalls
    /\ IF userId = ""
       THEN /\ chatCalls' = chatCalls
            /\ lastOp' = Op("getChats", "", "ok", Len(messages), userId, << >>)
       ELSE LET ids == IF first = "sent" THEN sentMessagesQuery(messages, userId)
                       ELSE receivedMessagesQuery(messages, userId)
            IN  /\ chatCalls' = chatCalls \cup {[userId |-> userId, first |-> first,
                                                 adIds |-> AdIdsOf(messages, ids),
                                                 seen |-> Len(messages)]}
                /\ lastOp' = Op("chatsQuery", "", "ok", 0, "", << >>)
    /\ UNCHANGED <<messages, clock, markCalls, listingVars>>

ChatsFirstQuery(userId, first) ==
    /\ ChatsFirstQueryUpTo(userId, first, MaxCalls)
    /\ UNCHANGED chatsPage

\* getChatsForUser from the second answer to its return (lines 115-124)
ChatsAnswered(c) ==
    /\ c \in chatCalls
    /\ chatCalls' = chatCalls \ {c}
    /\ LET other == IF c.first = "sent" THEN receivedMessagesQuery(messages, c.userId)
                    ELSE sentMessagesQuery(messages, c.userId)
           sent  == IF c.first = "sent" THEN c.adIds ELSE AdIdsOf(messages, other)
           rcvd  == IF c.first = "sent" THEN AdIdsOf(messages, other) ELSE c.adIds
       IN  lastOp' = Op("getChats", "", "ok", c.seen, c.userId, chatAdIds(sent, rcvd))
    /\ UNCHANGED <<messages, clock, markCalls, listingVars>>

ChatsReturn(c) ==
    /\ ChatsAnswered(c)
    /\ UNCHANGED chatsPage

----------------------------------------------------------------------------
(* MessagesPage actions (part_004) *)

\* the effect of lines 46-129 up to its first await: without a user it returns at
\* once, otherwise it calls getChatsForUser
MessagesPageEffect(userId, first) ==
    /\ chatsPage.effects < MaxEffects
    /\ IF userId = ""
       THEN /\ lastOp' = Op("effect", "", "ok", 0, userId, NoDoc)
            /\ UNCHANGED <<messages, clock, markCalls, chatCalls, listingVars>>
       ELSE ChatsFirstQueryUpTo(userId, first, MaxEffects)

\* the page is mounted for currentUserId: the effect runs.  The component is mounted
\* once; a later visit of the page is another component with state of its own
MountMessagesPage(userId, first) ==
    /\ ~chatsPage.mounted /\ chatsPage.effects = 0
    /\ MessagesPageEffect(userId, first)
    /\ chatsPage' = [effectState(chatsPage, userId) EXCEPT
                        !.mounted = TRUE, !.currentUserId = userId, !.effects = @ + 1]

\* currentUserId changes: React runs the cleanup of the last effect run, then the effect
ChangeUser(userId, first) ==
    /\ chatsPage.mounted
    /\ userId # chatsPage.currentUserId
    /\ MessagesPageEffect(userId, first)
    /\ chatsPage' = [effectState(chatsPage, userId) EXCEPT
                        !.currentUserId = userId, !.effects = @ + 1,
                        !.subs = runCleanup(effectCleanup, @)]

\* the page is unmounted: React runs the cleanup of the last effect run
UnmountMessagesPage ==
    /\ chatsPage.mounted
    /\ chatsPage' = [chatsPage EXCEPT !.mounted = FALSE,
                                      !.subs = runCleanup(effectCleanup, @),
                                      !.chatPreviews = << >>, !.isLoading = TRUE,
                                      !.error = FALSE]
    /\ lastOp' = Op("unmount", "", "ok", 0, chatsPage.currentUserId, NoDoc)
    /\ UNCHANGED <<messages, clock, markCalls, chatCalls, listingVars>>

\* getChatsForUser resolves and the then-callback starts (lines 57-69): with no ids it
\* is done, otherwise it awaits getListingById for the first id
ChatsResolved(c) ==
    /\ ChatsAnswered(c)
    /\ LET adIds == lastOp'.ret
       IN  chatsPage' = IF adIds = << >> THEN setState(chatsPage, thenEmpty(chatsPage))
                        ELSE [chatsPage EXCEPT !.loops =
                                 @ \cup {[userId |-> c.userId, pending |-> adIds]}]

\* getChatsForUser rejects: the catch of lines 123-127
ChatsFailed(c) ==
    /\ c \in chatCalls
    /\ chatCalls' = chatCalls \ {c}
    /\ chatsPage' = setState(chatsPage, catchHandler(chatsPage))
    /\ lastOp' = Op("getChats", "", "error", c.seen, c.userId, << >>)
    /\ UNCHANGED <<messages, clock, markCalls, listingVars>>

\* one turn of the loop of lines 68-115: getListingById resolves; for a listing found
\* the callback opens the onSnapshot subscription and keeps its unsubscribe in its own
\* local list; then it awaits the next listing, or ends after the last
ListingFetched(l) ==
    /\ l \in chatsPage.loops
    /\ LET adId      == Head(l.pending)
           adDetails == getListingById(listings, adId)
           rest      == Tail(l.pending)
           opened    == IF adDetails = NoDoc THEN chatsPage.subs
                        ELSE Append(chatsPage.subs, [adId |-> adId, userId |-> l.userId,
                                                     adTitle |-> adDetails["title"]])
           looped    == [chatsPage EXCEPT
                               !.subs = opened,
                               !.loops = (@ \ {l}) \cup
                                   (IF rest = << >> THEN {} ELSE {[l EXCEPT !.pending = rest]})]
       IN  /\ chatsPage' = IF rest = << >> THEN setState(looped, thenDone(looped))
                           ELSE looped
           /\ lastOp' = Op("subscribe", adId, IF adDetails = NoDoc THEN "no-listing" ELSE "ok",
                           0, l.userId, NoDoc)
    /\ UNCHANGED <<messages, clock, markCalls, chatCalls, listingVars>>

\* getListingById rejects in the loop: the then-callback's promise rejects, the
\* catch of lines 123-127 runs, and the subscriptions opened so far stay open
ListingFailed(l) ==
    /\ l \in chatsPage.loops
    /\ LET left == [chatsPage EXCEPT !.loops = @ \ {l}]
       IN  chatsPage' = setState(left, catchHandler(left))
    /\ lastOp' = Op("subscribe", Head(l.pending), "error", 0, l.userId, NoDoc)
    /\ UNCHANGED <<messages, clock, markCalls, chatCalls, listingVars>>

\* a snapshot is delivered to the k-th open subscription: the callback of lines
\* 79-110, with the adId, adDetails and currentUserId of the effect run that opened it
PreviewSnapshot(k) ==
    /\ k \in DOMAIN chatsPage.subs
    /\ LET sub     == chatsPage.subs[k]
           preview == previewOf(messages, sub.adId, sub.adTitle, sub.userId)
       IN  /\ chatsPage' = setState(chatsPage,
                   [chatsPage EXCEPT !.chatPreviews = updatePreviews(@, preview)])
           /\ lastOp' = Op("preview", sub.adId, "ok", 0, sub.userId, preview)
    /\ UNCHANGED <<messages, clock, markCalls, chatCalls, listingVars>>

----------------------------------------------------------------------------
(* AdminDashboardPage actions (CreateListingPage.tsx) *)

\* the effect, lines 374-404: fetchDashboardData() up to its first await, and the
\* two onSnapshot listeners attached
MountDashboard ==
    /\ ~dashboard.mounted
    /\ dashboard' = [ClosedDashboard EXCEPT !.mounted = TRUE, !.isLoading = TRUE,
                                            !.fetches = startFetch({})]
    /\ UNCHANGED <<listings, created, calls, editPage, lastOp, chatVars>>

\* the server answers the next count of a fetchDashboardData call (lines 345-348)
FetchCount(f) ==
    /\ f \in dashboard.fetches /\ Len(f.counts) < 4
    /\ dashboard' = [dashboard EXCEPT !.fetches = (@ \ {f}) \cup
             {[f EXCEPT !.counts = Append(@, serverCount(listings, Len(f.counts) + 1))]}]
    /\ UNCHANGED <<listings, created, calls, editPage, lastOp, chatVars>>

\* fetchDashboardData after its fourth await (lines 350-370): setStats, setIsLoading
FetchDone(f) ==
    /\ f \in dashboard.fetches /\ Len(f.counts) = 4
    /\ dashboard' = [dashboard EXCEPT !.fetches = @ \ {f}, !.stats = statsOf(f.counts),
                                      !.isLoading = FALSE]
    /\ UNCHANGED <<listings, created, calls, editPage, lastOp, chatVars>>

\* the listener on recentPendingQuery (lines 384-394) receives the query's result,
\* at first and whenever the result has changed
RecentPendingSnapshot ==
    /\ dashboard.mounted
    /\ dashboard.seenPending # Snapshot(pendingDocs(listings))
    /\ LET docs == pendingDocs(listings)
       IN  dashboard' = [dashboard EXCEPT
               !.seenPending = Snapshot(docs),
               !.recentPending = DOMAIN docs,
               !.stats = IF @ # NoDoc
                         THEN [@ EXCEPT !.totalPending = Cardinality(DOMAIN docs)]
                         ELSE NoDoc,
               !.isLoading = FALSE]
    /\ UNCHANGED <<listings, created, calls, editPage, lastOp, chatVars>>

\* the listener on the whole collection (lines 396-404) receives a snapshot, at
\* first and whenever a listing has changed: it calls fetchDashboardData
AllListingsSnapshot ==
    /\ dashboard.mounted
    /\ dashboard.seenAll # Snapshot(listings)
    /\ Cardinality(dashboard.fetches) < MaxFetches
    /\ dashboard' = [dashboard EXCEPT !.seenAll = Snapshot(listings),
                                      !.fetches = startFetch(@), !.isLoading = TRUE]
    /\ UNCHANGED <<listings, created, calls, editPage, lastOp, chatVars>>

\* the effect's cleanup (lines 407-410) on unmount; what a fetch in flight sets
\* afterwards is state of a component that is gone
UnmountDashboard ==
    /\ dashboard.mounted
    /\ dashboard' = ClosedDashboard
    /\ UNCHANGED <<listings, created, calls, editPage, lastOp, chatVars>>

----------------------------------------------------------------------------
(* The update data callers pass to updateListing: Product-shaped objects as   *)
(* handleSubmit builds them, with or without an owner id.                     *)
UpdateInputs ==
    { [status |-> ACTIVE], [status |-> PENDING, title |-> "t2"],
      [title |-> "t2", userId |-> "u2"] }

\* updateListing called directly (part_000 lines 97-108)
UpdateListing(id, updates) ==
    /\ UpdateListingWrite("update", id, updates, Field(updates, "status"))
    /\ UNCHANGED editPage

ListingOps(max) ==
    \/ \E d \in CreateInputs : CreateListing(d, max)
    \/ \E id \in ListingIds(max) : ApproveListing(id)
    \/ \E id \in ListingIds(max), r \in RejectReasons : RejectListing(id, r)
    \/ \E id \in ListingIds(max) : DeleteListing(id)
    \/ \E c \in calls : UpdateListingReturn(c)

EditPageOps(max) ==
    \/ \E id \in ListingIds(max) \cup {""}, u \in Users \cup {""}, a \in BOOLEAN :
          OpenEditPage(id, u, a)
    \/ FetchProduct
    \/ \E d \in FormData : HandleSubmit(d)
    \/ CloseEditPage

\* a second writer: updateListing called directly while another call may be in
\* flight; the writer awaits its call before it makes the next one
ConcurrentUpdate(id, updates) ==
    /\ [op |-> "update", id |-> id] \notin calls
    /\ UpdateListingWriteUpTo("update", id, updates, Field(updates, "status"), MaxWriters)
    /\ UNCHANGED editPage

\* the listing repository and its direct callers
Next ==
    \/ ListingOps(MaxListings)
    \/ \E id \in ListingIds(MaxListings), u \in UpdateInputs : UpdateListing(id, u)

Spec == Init /\ [][Next]_vars

\* the listing repository with the edit page as the caller of updateListing
NextEdit ==
    \/ ListingOps(MaxEditListings)
    \/ EditPageOps(MaxEditListings)

SpecEdit == Init /\ [][NextEdit]_vars

\* two concurrent writers of one listing: the edit page and a direct caller
NextRace ==
    \/ \E d \in CreateInputs : CreateListing(d, MaxEditListings)
    \/ \E id \in ListingIds(MaxEditListings) \cup {""}, u \in Users \cup {""}, a \in BOOLEAN :
          OpenEditPage(id, u, a)
    \/ FetchProduct
    \/ \E d \in FormData : HandleSubmitUpTo(d, MaxWriters)
    \/ CloseEditPage
    \/ \E id \in ListingIds(MaxEditListings), u \in UpdateInputs : ConcurrentUpdate(id, u)
    \/ \E c \in calls : UpdateListingReturn(c)

SpecRace == Init /\ [][NextRace]_vars

\* the chat repository and its callers
NextChat ==
    \/ \E a \in AdIds, u \in Users \cup {""}, v \in Users \cup {""}, t \in Texts,
          now \in clock..MaxClock :
          SendMessage(a, u, v, t, now)
    \/ \E a \in AdIds, u \in Users \cup {""} : MarkQuery(a, u)
    \/ \E c \in markCalls : MarkCommit(c)
    \/ \E u \in Users \cup {""} : CountUnread(u)
    \/ \E u \in Users \cup {""}, f \in {"sent", "received"} : ChatsFirstQuery(u, f)
    \/ \E c \in chatCalls : ChatsReturn(c)

SpecChat == Init /\ [][NextChat]_vars

\* the sender and receiver ids sendMessage is called with
SendIds == Participants \cup {"", Undef}

\* conversations: the chat repository among three participants, with the listing
\* page's messages listener
NextConv ==
    \/ \E a \in AdIds, u \in SendIds, v \in SendIds, t \in Texts, now \in clock..MaxClock :
          SendMessageUpTo(a, u, v, t, now, MaxConvMessages)
    \/ \E a \in AdIds, u \in Participants \cup {""} : GetMessagesForAd(a, u)
    \/ \E a \in AdIds, u \in Participants \cup {""} : MarkQuery(a, u)
    \/ \E c \in markCalls : MarkCommit(c)
    \/ \E a \in AdIds, u \in Participants \cup {""} : ProductPageSnapshot(a, u)

SpecConv == Init /\ [][NextConv]_vars

\* the listing page of OpenListing with the chat open for OpenViewer, who is not the
\* listing's owner (part_005 line 98), while the participants send messages
OpenListing == "L1"
OpenViewer  == "u2"

NextOpenChat ==
    \/ \E a \in AdIds, u \in Participants, v \in Participants, t \in Texts,
          now \in clock..MaxClock : SendMessageUpTo(a, u, v, t, now, MaxConvMessages)
    \/ ProductPageSnapshot(OpenListing, OpenViewer)
    \/ \E c \in markCalls : MarkCommit(c)

\* the store delivers a snapshot to the open listener after every change, and a
\* mark-read call that has read its query commits its batch
SpecOpenChat ==
    /\ Init /\ [][NextOpenChat]_vars
    /\ WF_vars(ProductPageSnapshot(OpenListing, OpenViewer))
    /\ WF_vars(\E c \in markCalls : MarkCommit(c))

\* the listings the my-chats page looks up: complete inputs of createListing
PageListingInputs == {d \in CreateInputs : DOMAIN d = {"title", "userId"} /\ d["userId"] \in Users}

\* the my-chats page over the listings and the messages it reads
NextPage ==
    \/ \E d \in PageListingInputs : CreateListing(d, MaxPageListings)
    \/ \E a \in AdIds, u \in Users \cup {""}, v \in Users \cup {""}, t \in Texts,
          now \in clock..MaxClock :
          SendMessageUpTo(a, u, v, t, now, MaxPageMessages)
    \/ \E u \in Users \cup {""}, f \in {"sent", "received"} : MountMessagesPage(u, f)
    \/ \E u \in Users \cup {""}, f \in {"sent", "received"} : ChangeUser(u, f)
    \/ UnmountMessagesPage
    \/ \E c \in chatCalls : ChatsResolved(c)
    \/ \E l \in chatsPage.loops : ListingFetched(l)

SpecPage == Init /\ [][NextPage]_vars

\* the my-chats page with the snapshots its subscriptions deliver, over two users'
\* messages on u1's listings, of which u1 reads those on L1
NextPreview ==
    \/ CreateListing([title |-> "t1", userId |-> "u1"], MaxPreviewListings)
    \/ \E a \in AdIds, u \in Users, v \in Users, t \in Texts, now \in clock..MaxClock :
          SendMessageUpTo(a, u, v, t, now, MaxPreviewMessages)
    \/ \E u \in Users \cup {""} : MountMessagesPage(u, "sent")
    \/ \E u \in Users \cup {""} : ChangeUser(u, "received")
    \/ UnmountMessagesPage
    \/ \E c \in chatCalls : ChatsResolved(c)
    \/ \E l \in chatsPage.loops : ListingFetched(l)
    \/ \E k \in DOMAIN chatsPage.subs : PreviewSnapshot(k)
    \/ MarkQuery("L1", "u1")
    \/ \E c \in markCalls : MarkCommit(c)

SpecPreview == Init /\ [][NextPreview]_vars

\* the loading of the my-chats page, with an enumeration and listing lookups that
\* succeed or fail
NextLoad ==
    \/ CreateListing([title |-> "t1", userId |-> "u1"], MaxLoadListings)
    \/ \E a \in AdIds, u \in Users, v \in Users, t \in Texts, now \in clock..MaxClock :
          SendMessageUpTo(a, u, v, t, now, MaxLoadMessages)
    \/ \E u \in Users \cup {""} : MountMessagesPage(u, "sent")
    \/ \E u \in Users \cup {""} : ChangeUser(u, "received")
    \/ UnmountMessagesPage
    \/ \E c \in chatCalls : ChatsResolved(c)
    \/ \E c \in chatCalls : ChatsFailed(c)
    \/ \E l \in chatsPage.loops : ListingFetched(l)
    \/ \E l \in chatsPage.loops : ListingFailed(l)

\* every promise the page awaits settles: getChatsForUser resolves or rejects, and
\* so does each getListingById of the loop
SpecLoad ==
    /\ Init /\ [][NextLoad]_vars
    /\ WF_vars(\E c \in chatCalls : ChatsResolved(c) \/ ChatsFailed(c))
    /\ WF_vars(\E l \in chatsPage.loops : ListingFetched(l) \/ ListingFailed(l))

\* update data that names the status alone
StatusUpdates == {u \in UpdateInputs : DOMAIN u = {"status"}}

\* the admin dashboard over a collection that other clients change
NextDash ==
    \/ CreateListing([title |-> "t1", userId |-> "u1"], MaxDashListings)
    \/ \E id \in ListingIds(MaxDashListings), u \in StatusUpdates : UpdateListing(id, u)
    \/ \E id \in ListingIds(MaxDashListings) : RejectListing(id, "r1")
    \/ \E id \in ListingIds(MaxDashListings) : DeleteListing(id)
    \/ \E c \in calls : UpdateListingReturn(c)
    \/ MountDashboard
    \/ \E f \in dashboard.fetches : FetchCount(f)
    \/ \E f \in dashboard.fetches : FetchDone(f)
    \/ RecentPendingSnapshot
    \/ AllListingsSnapshot
    \/ UnmountDashboard

SpecDash == Init /\ [][NextDash]_vars

----------------------------------------------------------------------------
(* Properties of the listing repository *)

NonEmpty(v) == v \notin {"", Undef}

C2_CreateRequiresOwner ==
    [][(lastOp'.op = "create" /\ ~NonEmpty(lastOp'.arg)) =>
          (lastOp'.outcome = "required-field" /\ listings' = listings /\ created' = created)]_vars

C2_Witness ==
    /\ lastOp.op = "create" /\ lastOp.outcome = "required-field" /\ lastOp.arg = ""
    /\ DOMAIN listings = {"L1"}

\* C3: approve on an existing listing leaves it stored with status active and
\* without a rejection reason.
C3_ApproveActivates ==
    (lastOp.op = "approve" /\ lastOp.pre # "none") =>
        /\ lastOp.id \in DOMAIN listings
        /\ listings[lastOp.id]["status"] = ACTIVE
        /\ Field(listings[lastOp.id], "rejectionReason") = Undef

\* C4: reject with a missing or empty reason does not succeed and leaves the
\* stored listings as they were.
C4_RejectNeedsReason ==
    [][(lastOp'.op = "reject" /\ ~NonEmpty(lastOp'.arg)) =>
          (lastOp'.outcome # "ok" /\ listings' = listings)]_vars

\* C5: reject with a non-empty reason on an existing listing leaves it stored with
\* status rejected and with exactly the supplied reason.
C5_RejectStoresReason ==
    (lastOp.op = "reject" /\ NonEmpty(lastOp.arg) /\ lastOp.pre # "none") =>
        /\ lastOp.outcome = "ok"
        /\ lastOp.id \in DOMAIN listings
        /\ listings[lastOp.id]["status"] = REJECTED
        /\ Field(listings[lastOp.id], "rejectionReason") = lastOp.arg

C5_Witness ==
    /\ lastOp.op = "reject" /\ lastOp.arg = "r2" /\ lastOp.pre = ACTIVE
    /\ lastOp.id \in DOMAIN listings
    /\ listings[lastOp.id]["status"] = REJECTED

\* C6: an edit submitted in non-admin mode for a listing stored as active or
\* rejected leaves it stored as pending, whatever the form data carries.
C6_OwnerEditResets ==
    (lastOp.op = "ownerEdit" /\ lastOp.pre \in {ACTIVE, REJECTED}) =>
        /\ lastOp.outcome = "ok"
        /\ lastOp.id \in DOMAIN listings
        /\ listings[lastOp.id]["status"] = PENDING

C6_Witness ==
    /\ lastOp.op = "ownerEdit" /\ lastOp.pre = ACTIVE /\ lastOp.arg = ACTIVE
    /\ lastOp.id \in DOMAIN listings
    /\ listings[lastOp.id]["status"] = PENDING
    /\ listings[lastOp.id]["title"] = "t2"

AllowedTransitions ==
    {<<PENDING, ACTIVE>>, <<PENDING, REJECTED>>, <<ACTIVE, PENDING>>, <<REJECTED, PENDING>>}

\* C7: every change of a stored status made by create, owner edit, approve, reject
\* or delete is pending -> active, pending -> rejected or active/rejected -> pending,
\* and every change made by approve or reject starts from pending.
C7_StatusTransitions ==
    [][lastOp'.op \in {"create", "ownerEdit", "approve", "reject", "delete"} =>
          \A id \in DOMAIN listings \cap DOMAIN listings' :
              LET a == listings[id]["status"]
                  b == listings'[id]["status"]
              IN  a # b => /\ <<a, b>> \in AllowedTransitions
                           /\ (lastOp'.op \in {"approve", "reject"} => a = PENDING)]_vars

\* C11: an edit submitted in non-admin mode for a listing stored as rejected leaves it
\* stored as pending, and leaves the stored rejection reason as it was unless the
\* submitted data itself carries a rejectionReason field.
C11_EditKeepsReason ==
    [][\A d \in FormData :
          (/\ HandleSubmit(d)
           /\ ~editPage.isAdminEdit
           /\ StatusOf(listings, editPage.productId) = REJECTED) =>
              LET id == editPage.productId
              IN  /\ id \in DOMAIN listings'
                  /\ listings'[id]["status"] = PENDING
                  /\ "rejectionReason" \notin DOMAIN d =>
                        Field(listings'[id], "rejectionReason") =
                            Field(listings[id], "rejectionReason")
                  /\ "rejectionReason" \in DOMAIN d =>
                        listings'[id]["rejectionReason"] = d["rejectionReason"]]_vars

C11_Witness ==
    /\ lastOp.op = "ownerEdit" /\ lastOp.pre = REJECTED /\ lastOp.outcome = "ok"
    /\ lastOp.id \in DOMAIN listings
    /\ listings[lastOp.id]["userId"] = "u1" /\ editPage.currentUserId = "u1"
    /\ listings[lastOp.id]["status"] = PENDING
    /\ listings[lastOp.id]["title"] = "t2"
    /\ listings[lastOp.id]["createdAt"] = Timestamp
    /\ Field(listings[lastOp.id], "rejectionReason") = "r2"

\* C15: an edit submitted in non-admin mode for an existing listing leaves it stored
\* as pending, and an edit submitted in admin mode leaves it stored with exactly the
\* status the form data carries, whatever the status stored before.
C15_AdminEditKeepsStatus ==
    (lastOp.op \in {"ownerEdit", "adminEdit"} /\ lastOp.pre # "none") =>
        /\ lastOp.outcome = "ok"
        /\ lastOp.id \in DOMAIN listings
        /\ listings[lastOp.id]["status"] =
              IF lastOp.op = "adminEdit" THEN lastOp.arg ELSE PENDING

C15_Witness ==
    /\ lastOp.op = "adminEdit" /\ lastOp.pre = REJECTED /\ lastOp.arg = ACTIVE
    /\ lastOp.id \in DOMAIN listings
    /\ listings[lastOp.id]["status"] = ACTIVE
    /\ editPage.isAdminEdit /\ editPage.phase = "submitting"

\* the ids createListing has been given so far
Assigned == {ListingIdNames[i] : i \in 1..created}

NotListed(store, id) ==
    /\ getListingById(store, id) = NoDoc
    /\ \A r \in getAllListings(store) : r["id"] # id
    /\ \A st \in {ACTIVE, PENDING} : \A r \in getListingsByStatus(store, st) : r["id"] # id
    /\ \A u \in Users : \A r \in getListingsByUserId(store, u) : r["id"] # id

\* C16: deleteListing returns true for every id, with or without a document; after it
\* getListingById finds nothing for the id and no list query returns the listing; and a
\* listing that has been deleted is not stored again by any later step.
C16_DeleteIsFinal ==
    [][/\ lastOp'.op = "delete" =>
              /\ lastOp'.outcome = "ok" /\ lastOp'.ret = TRUE
              /\ NotListed(listings', lastOp'.id)
       /\ \A id \in Assigned \ DOMAIN listings : NotListed(listings', id)]_vars

C16_Witness ==
    /\ lastOp.op = "return" /\ lastOp.id = "L1" /\ lastOp.pre = "none"
    /\ lastOp.ret = NoDoc
    /\ created = 2 /\ DOMAIN listings = {"L2"}

WriteOps == {"update", "ownerEdit", "adminEdit"}

\* the fields a write step was given are stored with the values it was given
Wrote(id, updates) ==
    /\ id \in DOMAIN listings'
    /\ \A f \in DOMAIN safeUpdates(updates) : listings'[id][f] = updates[f]

\* C13: with two writers updating the same existing listing concurrently, no update
\* call fails (each write is accepted, each call returns a record), and after every
\* write each field it wrote is stored with its value, whatever the other writer
\* wrote before: the update the store applied last wins.
C13_LastWriteWins ==
    [][/\ (lastOp'.op \in WriteOps /\ lastOp'.pre # "none") => lastOp'.outcome = "ok"
       /\ lastOp'.op = "return" =>
              (lastOp'.ret # NoDoc /\ lastOp'.ret = getListingById(listings', lastOp'.id))
       /\ \A id \in DOMAIN listings, u \in UpdateInputs :
              ConcurrentUpdate(id, u) => Wrote(id, u)
       /\ \A d \in FormData :
              (HandleSubmitUpTo(d, MaxWriters) /\ editPage.productId \in DOMAIN listings) =>
                  Wrote(editPage.productId, updatedProductData(editPage.isAdminEdit, d))]_vars

C13_Witness ==
    /\ calls = {[op |-> "update", id |-> "L1"], [op |-> "adminEdit", id |-> "L1"]}
    /\ lastOp.op = "update" /\ lastOp.arg = PENDING /\ lastOp.pre = ACTIVE
    /\ lastOp.outcome = "ok"
    /\ listings["L1"]["status"] = PENDING
    /\ listings["L1"]["title"] = "t2"
    /\ Field(listings["L1"], "rejectionReason") = "r1"

\* C14: the owner id stored for a listing is the one given at creation and no step
\* changes it, also not an update whose data carries another owner id; an update
\* call returns the record as the store holds it when the call re-reads it.
C14_OwnerNeverChanges ==
    [][/\ \A id \in DOMAIN listings \cap DOMAIN listings' :
              Field(listings'[id], "userId") = Field(listings[id], "userId")
       /\ (lastOp'.op = "create" /\ lastOp'.outcome = "ok") =>
              (lastOp'.id \notin DOMAIN listings /\ listings'[lastOp'.id]["userId"] = lastOp'.arg)
       /\ lastOp'.op = "return" =>
              /\ lastOp'.ret = getListingById(listings', lastOp'.id)
              /\ lastOp'.id \in DOMAIN listings' =>
                    lastOp'.ret["userId"] = listings'[lastOp'.id]["userId"]]_vars

C14_Witness ==
    /\ lastOp.op = "update" /\ lastOp.arg = Undef /\ lastOp.outcome = "ok"
    /\ lastOp.pre = REJECTED
    /\ listings[lastOp.id]["userId"] = "u1"
    /\ listings[lastOp.id]["title"] = "t2"
    /\ listings[lastOp.id]["status"] = REJECTED

\* C26: the edit page makes an update call in non-admin mode only from the form it
\* shows after loading a listing whose owner id equals the non-empty current user id;
\* without a user id, or when the listing is missing or owned by someone else, the
\* page goes to its error state, from which no update call is made.
C26_OwnerOnlyEdit ==
    [][/\ lastOp'.op = "ownerEdit" =>
              /\ editPage.phase = "ready" /\ ~editPage.isAdminEdit
              /\ NonEmpty(editPage.currentUserId)
              /\ lastOp'.id = editPage.productId
              /\ lastOp'.id \in DOMAIN listings =>
                    listings[lastOp'.id]["userId"] = editPage.currentUserId
       /\ (lastOp'.op = "fetch" /\ ~editPage.isAdminEdit) =>
              editPage'.phase =
                  IF lastOp'.ret # NoDoc /\ lastOp'.ret["userId"] = editPage.currentUserId
                  THEN "ready" ELSE "error"
       /\ (lastOp'.op = "open" /\ ~editPage'.isAdminEdit
              /\ ~NonEmpty(editPage'.currentUserId)) => editPage'.phase = "error"
       /\ editPage.phase = "error" => lastOp'.op \notin {"ownerEdit", "adminEdit"}]_vars

C26_Witness ==
    /\ lastOp.op = "fetch" /\ lastOp.outcome = "error" /\ editPage.phase = "error"
    /\ ~editPage.isAdminEdit /\ editPage.currentUserId = "u2"
    /\ lastOp.ret # NoDoc /\ lastOp.ret["userId"] = "u1"

C26_EditWitness ==
    /\ lastOp.op = "ownerEdit" /\ lastOp.outcome = "ok" /\ editPage.currentUserId = "u2"
    /\ listings[lastOp.id]["userId"] = "u2"

\* the store after the step differs from the store before it at most in the fields
\* `named` of listing id
OnlyFieldsChanged(id, named) ==
    /\ DOMAIN listings' = DOMAIN listings
    /\ \A other \in DOMAIN listings \ {id} : listings'[other] = listings[other]
    /\ id \in DOMAIN listings =>
          /\ DOMAIN listings'[id] \subseteq DOMAIN listings[id] \cup named
          /\ \A f \in DOMAIN listings[id] \ named :
                f \in DOMAIN listings'[id] /\ listings'[id][f] = listings[id][f]

\* C29: an update, approve or reject call on listing X changes only the fields of X
\* named in its update data other than the owner id; every other field of X and
\* every other listing is the same in the store after the call as before.
C29_UpdateFrame ==
    [][/\ \A id \in ListingIds(MaxListings), u \in UpdateInputs :
              UpdateListing(id, u) => OnlyFieldsChanged(id, DOMAIN u \ {"userId"})
       /\ \A id \in ListingIds(MaxListings) :
              ApproveListing(id) => OnlyFieldsChanged(id, {"status", "rejectionReason"})
       /\ \A id \in ListingIds(MaxListings), r \in RejectReasons :
              RejectListing(id, r) => OnlyFieldsChanged(id, {"status", "rejectionReason"})
       /\ \A c \in calls : UpdateListingReturn(c) => listings' = listings]_vars

C29_Witness ==
    /\ lastOp.op = "update" /\ lastOp.outcome = "ok" /\ lastOp.id = "L1"
    /\ DOMAIN listings = {"L1", "L2"}
    /\ listings["L1"]["title"] = "t2" /\ listings["L2"]["title"] # "t2"
    /\ listings["L1"]["status"] = PENDING /\ listings["L2"]["status"] = REJECTED
    /\ listings["L1"]["createdAt"] = Timestamp

\* C22: every stored creation time of a listing is the value the server assigned (no
\* operation writes a client-supplied time into the field), and every creation time a
\* read hands to a page is an epoch-millisecond number.
C22_ServerTimes ==
    \A id \in DOMAIN listings :
        /\ Field(listings[id], "createdAt") = Timestamp
        /\ getListingById(listings, id)["createdAt"] = Millis

\* the dashboard is at rest: no count fetch is outstanding and both listeners have
\* received the collection as it is
DashboardAtRest ==
    /\ dashboard.mounted
    /\ dashboard.fetches = {}
    /\ dashboard.seenAll = Snapshot(listings)
    /\ dashboard.seenPending = Snapshot(pendingDocs(listings))

\* C24: when all outstanding count fetches and snapshot deliveries of the admin
\* dashboard have completed, the displayed active, pending, rejected and total counts
\* are the numbers of listings with those statuses in the store, and
\* active + pending + rejected = total.
C24_CountsAgree ==
    DashboardAtRest =>
        /\ dashboard.stats = statsOf(<<countByStatus(listings, ACTIVE),
                                      countByStatus(listings, PENDING),
                                      countByStatus(listings, REJECTED),
                                      Cardinality(DOMAIN listings)>>)
        /\ dashboard.stats.totalActive + dashboard.stats.totalPending
              + dashboard.stats.totalRejected = dashboard.stats.totalListings

\* C23: getListingById for an id without a document returns undefined, and an update,
\* approve or reject call for an id without a document completes without an error.
C23_MissingIsNoFailure ==
    /\ \A id \in ListingIds(MaxListings) \ DOMAIN listings : getListingById(listings, id) = NoDoc
    /\ (lastOp.op \in {"update", "approve", "reject"} /\ lastOp.pre = "none") =>
          lastOp.outcome = "ok"

----------------------------------------------------------------------------
(* Properties of the chat repository *)

Matches(m, adId, readerId) == m.adId = adId /\ m.receiverId = readerId

\* C8 (as amended): every message is stored with read = false when sent; a completed
\* mark-read call for listing L and reader R sets read = true on every message of L
\* addressed to R that was stored when the call ran its query, and changes nothing
\* else: no other message, and no other field.
C8_MarkReadFlipsQueried ==
    [][/\ (lastOp'.op = "send" /\ lastOp'.outcome = "ok") =>
              /\ Len(messages') = Len(messages) + 1
              /\ messages'[Len(messages')].read = FALSE
              /\ \A i \in DOMAIN messages : messages'[i] = messages[i]
       /\ lastOp'.op = "markRead" =>
              /\ Len(messages') = Len(messages)
              /\ \A i \in DOMAIN messages :
                    messages'[i] =
                        IF i <= lastOp'.pre /\ Matches(messages[i], lastOp'.id, lastOp'.arg)
                        THEN [messages[i] EXCEPT !.read = TRUE]
                        ELSE messages[i]]_vars

C8_Witness ==
    /\ lastOp.op = "markRead" /\ lastOp.arg = "u2" /\ lastOp.pre = 2 /\ Len(messages) = 3
    /\ Matches(messages[1], lastOp.id, "u2") /\ messages[1].read
    /\ ~Matches(messages[2], lastOp.id, "u2") /\ ~messages[2].read
    /\ Matches(messages[3], lastOp.id, "u2") /\ ~messages[3].read

\* C8 as stated: when a mark-read call for L and R completes, every message of L
\* addressed to R has read = true, also with messages sent during the call.
C8_MarkReadFlipsAll ==
    lastOp.op = "markRead" =>
        \A i \in DOMAIN messages :
            Matches(messages[i], lastOp.id, lastOp.arg) => messages[i].read

\* C9: count-unread for user u returns the number of stored messages with receiver u
\* and read = false, and 0 for an empty user id.
C9_UnreadCount ==
    lastOp.op = "countUnread" =>
        /\ lastOp.ret = Cardinality({i \in DOMAIN messages :
                                       messages[i].receiverId = lastOp.arg /\ ~messages[i].read})
        /\ (lastOp.arg = "" => lastOp.ret = 0)

C9_Witness ==
    /\ lastOp.op = "countUnread" /\ lastOp.ret = 1
    /\ \E i \in DOMAIN messages : messages[i].receiverId = lastOp.arg /\ messages[i].read
    /\ \E i \in DOMAIN messages : messages[i].receiverId # lastOp.arg /\ ~messages[i].read

\* the listing ids of the first n messages in which u is sender or receiver
ChatIds(u, n) ==
    {messages[i].adId : i \in {j \in 1..n : messages[j].senderId = u \/ messages[j].receiverId = u}}

NoDuplicates(seq) == \A i, j \in DOMAIN seq : seq[i] = seq[j] => i = j

\* C10: list-distinct-listing-ids for user u returns a duplicate-free collection; called
\* after the sends it holds exactly the listing ids of the messages u sent or received
\* (with sends during the call: at least those stored when it began, at most those
\* stored when it returns); for an empty user id it is empty.
C10_ChatIdsUnion ==
    lastOp.op = "getChats" =>
        /\ NoDuplicates(lastOp.ret)
        /\ ChatIds(lastOp.arg, lastOp.pre) \subseteq Range(lastOp.ret)
        /\ Range(lastOp.ret) \subseteq ChatIds(lastOp.arg, Len(messages))
        /\ (lastOp.pre = Len(messages) => Range(lastOp.ret) = ChatIds(lastOp.arg, Len(messages)))
        /\ (lastOp.arg = "" => lastOp.ret = << >>)

C10_Witness ==
    /\ lastOp.op = "getChats" /\ lastOp.arg = "u1" /\ lastOp.pre = 3 /\ Len(messages) = 3
    /\ Len(lastOp.ret) = 2
    /\ \E i, j \in DOMAIN messages :
          /\ i # j /\ messages[i].adId = messages[j].adId
          /\ messages[i].senderId = "u1" /\ messages[j].receiverId = "u1"

----------------------------------------------------------------------------
(* Properties of conversations *)

OnListing(adId) == {i \in DOMAIN messages : messages[i].adId = adId}

\* C12: when listing L holds exactly one message, sent by another user to u,
\* get-messages for (L, u) returns exactly that message, with read = false while it
\* is stored unread; and when a mark-read call for (L, u) has completed, no message
\* of L addressed to u is unread.
C12_ScenarioB ==
    \A i \in DOMAIN messages :
        (OnListing(lastOp.id) = {i} /\ messages[i].receiverId = lastOp.arg
            /\ messages[i].senderId # lastOp.arg) =>
            /\ lastOp.op = "getMessages" =>
                  /\ lastOp.ret = <<messageFromFirestore(i, messages[i])>>
                  /\ lastOp.ret[1].text = messages[i].text
                  /\ lastOp.ret[1].senderId = messages[i].senderId
                  /\ ~messages[i].read => lastOp.ret[1].read = FALSE
            /\ lastOp.op = "markRead" =>
                  Cardinality({j \in OnListing(lastOp.id) :
                                 messages[j].receiverId = lastOp.arg /\ ~messages[j].read}) = 0

C12_FetchWitness ==
    /\ lastOp.op = "getMessages" /\ lastOp.id = "L1" /\ lastOp.arg = "u2"
    /\ Len(messages) = 2 /\ OnListing("L1") = {2}
    /\ messages[2].senderId = "u1" /\ messages[2].receiverId = "u2"
    /\ Len(lastOp.ret) = 1 /\ lastOp.ret[1].id = 2 /\ lastOp.ret[1].read = FALSE

C12_Witness ==
    /\ lastOp.op = "markRead" /\ lastOp.id = "L1" /\ lastOp.arg = "u2" /\ lastOp.pre = 2
    /\ Len(messages) = 2 /\ OnListing("L1") = {2}
    /\ messages[2].senderId = "u1" /\ messages[2].receiverId = "u2" /\ messages[2].read
    /\ messages[1].receiverId = "u2" /\ ~messages[1].read

\* C17: no step removes a message or changes a field of a stored message, except that
\* a completing mark-read call sets read = true on messages whose receiver is the
\* call's reader: a send changes no stored message, a mark-read by a reader who is
\* not the receiver sets nothing, read never returns to false, and a message is
\* stored with read = false.
C17_ReadSetByReceiverOnly ==
    [][/\ Len(messages') >= Len(messages)
       /\ \A i \in DOMAIN messages :
              \/ messages'[i] = messages[i]
              \/ /\ messages'[i] = [messages[i] EXCEPT !.read = TRUE]
                 /\ lastOp'.op = "markRead"
                 /\ lastOp'.arg = messages[i].receiverId
                 /\ lastOp'.id = messages[i].adId
       /\ \A i \in DOMAIN messages' \ DOMAIN messages : messages'[i].read = FALSE]_vars

C17_Witness ==
    /\ lastOp.op = "markRead" /\ lastOp.arg = "u2" /\ lastOp.id = "L1" /\ lastOp.pre = 2
    /\ Len(messages) = 2
    /\ messages[1].adId = "L1" /\ messages[1].senderId = "u3" /\ messages[1].receiverId = "u2"
    /\ messages[1].read
    /\ messages[2].adId = "L1" /\ messages[2].senderId = "u2" /\ messages[2].receiverId = "u3"
    /\ ~messages[2].read

\* C18: sendMessage with a missing or empty sender id or receiver id fails with the
\* required-field error and leaves the messages as they were; with both present it
\* adds exactly one message, with the given listing id, sender, receiver and text
\* and read = false, and returns a record with the new document's id and read = false.
C18_SendWritesOne ==
    [][lastOp'.op = "send" =>
          \A a \in AdIds, u \in SendIds, v \in SendIds, t \in Texts, now \in 1..MaxClock :
              SendMessageUpTo(a, u, v, t, now, MaxConvMessages) =>
                  IF ~NonEmpty(u) \/ ~NonEmpty(v)
                  THEN lastOp'.outcome = "required-field" /\ messages' = messages
                  ELSE /\ lastOp'.outcome = "ok"
                       /\ Len(messages') = Len(messages) + 1
                       /\ SubSeq(messages', 1, Len(messages)) = messages
                       /\ LET m == messages'[Len(messages')]
                          IN  /\ m.adId = a /\ m.senderId = u /\ m.receiverId = v
                              /\ m.text = t /\ m.read = FALSE
                       /\ lastOp'.ret.id = Len(messages')
                       /\ lastOp'.ret.read = FALSE
                       /\ lastOp'.ret.adId = a /\ lastOp'.ret.senderId = u
                       /\ lastOp'.ret.receiverId = v /\ lastOp'.ret.text = t]_vars

C18_Witness ==
    /\ lastOp.op = "send" /\ lastOp.outcome = "ok" /\ lastOp.ret.id = 2
    /\ Len(messages) = 2
    /\ messages[1].read /\ ~messages[2].read
    /\ messages[2].senderId = "u3" /\ messages[2].receiverId = "u1"

C18_RefusedWitness ==
    /\ lastOp.op = "send" /\ lastOp.outcome = "required-field"
    /\ Len(messages) = 1

\* the other participant of a returned message, as seen by u
Counterparts(msgs, u) ==
    {IF msgs[k].senderId = u THEN msgs[k].receiverId ELSE msgs[k].senderId : k \in DOMAIN msgs} \ {u}

\* C19: getMessagesForAd(L, u) returns, in ascending timestamp order, only messages of
\* listing L in which u is sender or receiver, all of them exchanged with one and the
\* same counterpart; for an empty user id it returns the empty list.
C19_OneConversation ==
    lastOp.op = "getMessages" =>
        /\ \A k \in DOMAIN lastOp.ret :
              /\ lastOp.ret[k].adId = lastOp.id
              /\ isParticipant(lastOp.ret[k], lastOp.arg)
        /\ \A j, k \in DOMAIN lastOp.ret :
              j < k => lastOp.ret[j].timestamp <= lastOp.ret[k].timestamp
        /\ Cardinality(Counterparts(lastOp.ret, lastOp.arg)) <= 1
        /\ (lastOp.arg = "" => lastOp.ret = << >>)

----------------------------------------------------------------------------
(* Properties of the listing page's chat *)

\* C27: with the chat of a listing open for a viewer who is not the owner, once no
\* new messages are sent the cycle of snapshot and mark-read stops with no mark-read
\* call outstanding and no message addressed to the viewer on that listing unread.
C27_ChatSettles ==
    <>[](/\ markCalls = {}
         /\ \A i \in DOMAIN messages :
               (messages[i].adId = OpenListing /\ messages[i].receiverId = OpenViewer)
                   => messages[i].read)

----------------------------------------------------------------------------
(* Properties of the my-chats page *)

\* C20: once the page is unmounted none of its subscriptions is open, every open
\* subscription was opened for the current user id, and the open subscriptions are
\* never more than the listing ids of the current user's messages.
C20_SubscriptionsDetached ==
    /\ ~chatsPage.mounted => chatsPage.subs = << >>
    /\ \A k \in DOMAIN chatsPage.subs : chatsPage.subs[k].userId = chatsPage.currentUserId
    /\ Len(chatsPage.subs) <= Cardinality(ChatIds(chatsPage.currentUserId, Len(messages)))

\* a preview is drawn from the current user's messages: its last message is a
\* message of its listing in which the page's current user is sender or receiver
DrawnFromCurrentUser(p) ==
    p.lastMessageTimestamp # 0 =>
        \E i \in DOMAIN messages :
            /\ messages[i].adId = p.adId
            /\ messages[i].timestamp = p.lastMessageTimestamp
            /\ messages[i].senderId = p.lastMessageSenderId
            /\ isParticipant(messages[i], chatsPage.currentUserId)

\* C21: no snapshot callback and no pending result of the enumeration or of a listing
\* lookup runs for a user id other than the page's current one or after the page is
\* unmounted, and every chat preview shown is drawn from messages in which the current
\* user is sender or receiver.
C21_NoStaleWrites ==
    /\ lastOp.op \in {"preview", "getChats", "subscribe"} =>
          chatsPage.mounted /\ lastOp.arg = chatsPage.currentUserId
    /\ chatsPage.mounted =>
          \A k \in DOMAIN chatsPage.chatPreviews : DrawnFromCurrentUser(chatsPage.chatPreviews[k])

\* the messages of a listing that a snapshot delivers
Delivered(adId) == {i \in DOMAIN messages : messages[i].adId = adId}

\* preview p shows, for the user whose subscription delivered the messages of its
\* listing, a last message of greatest timestamp among those the user takes part in,
\* and the number of unread messages addressed to the user
ShowsLatest(p, userId) ==
    LET mine   == {i \in Delivered(p.adId) : isParticipant(messages[i], userId)}
        unread == {i \in Delivered(p.adId) :
                      messages[i].receiverId = userId /\ ~messages[i].read}
    IN  /\ p.unreadCount = Cardinality(unread)
        /\ IF mine = {} THEN p.lastMessageTimestamp = 0 /\ p.lastMessageText = NoMessagesText
           ELSE \E i \in mine :
                   /\ \A j \in mine : messages[j].timestamp <= messages[i].timestamp
                   /\ p.lastMessageTimestamp = messages[i].timestamp
                   /\ p.lastMessageSenderId = messages[i].senderId
                   /\ p.lastMessageText = messages[i].text

C28_PreviewsOrdered ==
    LET ps == chatsPage.chatPreviews
    IN  /\ \A i, j \in DOMAIN ps : i # j => ps[i].adId # ps[j].adId
        /\ \A i, j \in DOMAIN ps : i < j => ~(ps[i].unreadCount = 0 /\ ps[j].unreadCount > 0)

C28_Witness ==
    LET ps == chatsPage.chatPreviews
    IN  /\ lastOp.op = "preview" /\ chatsPage.mounted /\ Len(ps) = 2
        /\ ps[1].unreadCount > 0 /\ ps[2].unreadCount = 0
        /\ ps[1].lastMessageTimestamp < ps[2].lastMessageTimestamp
        /\ lastOp.ret = ps[1]

\* C30: the loading state of the mounted my-chats page always ends, whether the
\* enumeration of listing ids returns none, returns ids or fails and whether each
\* listing lookup finds the listing, finds none or fails; for an absent user id the
\* effect sets loading to false and empties the preview list at once.
C30_LoadingEnds ==
    /\ [][(MountMessagesPage("", "sent") \/ ChangeUser("", "received")) =>
              (~chatsPage'.isLoading /\ chatsPage'.chatPreviews = << >>)]_vars
    /\ (chatsPage.mounted /\ chatsPage.isLoading)
           ~> (~chatsPage.mounted \/ ~chatsPage.isLoading)

C30_Witness ==
    /\ chatsPage.mounted /\ ~chatsPage.isLoading /\ chatsPage.error
    /\ lastOp.op = "subscribe" /\ lastOp.outcome = "error"
    /\ lastOp.arg = chatsPage.currentUserId /\ Len(chatsPage.subs) = 1

====
